---- MODULE Spec2Model ----
(***************************************************************************)
(* Transfer workflow of helpspeaking-downloader: runTransferWorkflow       *)
(* (src/src/index.ts) with its collaborators loadConfig (config.ts),       *)
(* fetchLatestLessonVideo (helpspeaking.ts), requestAccessToken,           *)
(* findExistingFile and uploadFileResumable (google-drive.ts), and the     *)
(* error classes of errors.ts.                                             *)
(*                                                                         *)
(* One invocation is a chain of awaits.  Its position pc[i] names the      *)
(* await it is suspended on; every action is the continuation that runs    *)
(* when that await settles, up to the next await or to the end of the      *)
(* workflow.  What the outside world answers (an HTTP response, a thrown   *)
(* exception, the page of the source site) is the input of the action.     *)
(* Strings the code computes on are sequences of one-character strings.    *)
(***************************************************************************)
EXTENDS Integers, Sequences, FiniteSets, TLC

\* ------------------------------------------------------------------ bounds

\* Invocations of runTransferWorkflow the model holds.
NumInvocations == 2

Invocations == 1..NumInvocations

\* ------------------------------------------------------- program constants

\* index.ts:33
MAX_UPLOAD_ATTEMPTS == 3

\* index.ts:34
BASE_BACKOFF_MS == 1000

\* ------------------------------------------------------------------ errors

\* An absent optional number (status?: number) and an absent value.
NoStatus == 0
None == "none"

\* Variant: only server errors count as transient (429 forgotten).
isRetryableHttpStatus_ServerErrorsOnly(status) == status >= 500

\* errors.ts:38
isRetryableHttpStatus(status) == status = 429 \/ status >= 500

\* Response.ok of the fetch API: a status in 200..299.
ResponseOk(status) == status >= 200 /\ status <= 299

\* retryable?: boolean is "true", "false" or "undefined" (the field not set).
BoolField(b) == IF b THEN "true" ELSE "false"

\* errors.ts:3-28: an error value.  tag is the class; key is ConfigError's
\* key; the message text is not modelled.
ErrorOf(tag, step, status, retryable) ==
    [tag |-> tag, step |-> step, status |-> status, retryable |-> retryable]

NoError == ErrorOf(None, None, NoStatus, "undefined")

\* new DownloadError/DriveError({step, message, status, retryable: isRetryableHttpStatus(status)})
HttpFailure(tag, step, status) ==
    ErrorOf(tag, step, status, BoolField(isRetryableHttpStatus(status)))

\* new DownloadError/DriveError({step, message}) and the catch: branch of
\* Effect.tryPromise for an exception that is not already classified:
\* neither status nor retryable is set.
Unclassified(tag, step) == ErrorOf(tag, step, NoStatus, "undefined")

\* ----------------------------------------------------------------- strings

Whitespace == {" "}
Digits == {"0", "1", "2", "3", "4", "5", "6", "7", "8", "9"}

\* String.prototype.trim
RECURSIVE TrimStart(_)
TrimStart(s) ==
    IF s # <<>> /\ Head(s) \in Whitespace THEN TrimStart(Tail(s)) ELSE s

RECURSIVE TrimEnd(_)
TrimEnd(s) ==
    IF s # <<>> /\ s[Len(s)] \in Whitespace
    THEN TrimEnd(SubSeq(s, 1, Len(s) - 1))
    ELSE s

Trim(s) == TrimEnd(TrimStart(s))

\* ------------------------------------------------------------------ config

\* config.ts:31-54: the bindings in the order loadConfig reads them.
ConfigKeys ==
    << "HELPSPEAKING_USERNAME", "HELPSPEAKING_PASSWORD", "GOOGLE_OAUTH_CLIENT_ID",
       "GOOGLE_OAUTH_CLIENT_SECRET", "GOOGLE_OAUTH_REFRESH_TOKEN",
       "GOOGLE_DRIVE_FOLDER_ID" >>

\* A binding of the Worker environment: a string, or not a string at all.
Binding(isString, chars) == [isString |-> isString, chars |-> chars]

BindingValues ==
    { Binding(FALSE, <<>>), Binding(TRUE, <<>>), Binding(TRUE, <<" ">>),
      Binding(TRUE, <<"a">>), Binding(TRUE, <<" ", "a">>) }

Envs == [1..Len(ConfigKeys) -> BindingValues]

\* Variant: the value is not trimmed before its length is looked at.
IsMissing_Untrimmed(value) == ~value.isString \/ Len(value.chars) = 0

\* config.ts:13-27: TRUE when readRequired fails for the value.
IsMissing(value) == ~value.isString \/ Len(Trim(value.chars)) = 0

\* config.ts:29-64: the keys for which readRequired fails, and the result of
\* loadConfig: the ConfigError of the first such key in reading order, or
\* the trimmed values.
MissingKeys(env) == {k \in 1..Len(ConfigKeys) : IsMissing(env[k])}

FirstMissing(env) ==
    CHOOSE k \in MissingKeys(env) : \A j \in MissingKeys(env) : k <= j

loadConfig(env) ==
    IF MissingKeys(env) # {}
    THEN [ok |-> FALSE, key |-> ConfigKeys[FirstMissing(env)], values |-> <<>>]
    ELSE [ok |-> TRUE, key |-> None,
          values |-> [k \in 1..Len(ConfigKeys) |-> Trim(env[k].chars)]]

\* What loadConfig gives over all the environments.
LoadConfigResults == {loadConfig(env) : env \in Envs}

\* ----------------------------------------------------------------- locator

\* helpspeaking.ts:255: the first match of /\d\d\d\d\.\d\d?\.\d\d?/ in the
\* label, or "unknown".
IsDigitAt(s, k) == k >= 1 /\ k <= Len(s) /\ s[k] \in Digits
IsDotAt(s, k) == k >= 1 /\ k <= Len(s) /\ s[k] = "."

\* Position of the second dot of a match starting at p, 0 if none: the month
\* takes two digits when it can (greedy), else one.
SecondDot(s, p) ==
    IF ~(IsDigitAt(s, p) /\ IsDigitAt(s, p + 1) /\ IsDigitAt(s, p + 2)
         /\ IsDigitAt(s, p + 3) /\ IsDotAt(s, p + 4) /\ IsDigitAt(s, p + 5))
    THEN 0
    ELSE IF IsDigitAt(s, p + 6) /\ IsDotAt(s, p + 7) /\ IsDigitAt(s, p + 8)
         THEN p + 7
         ELSE IF IsDotAt(s, p + 6) /\ IsDigitAt(s, p + 7) THEN p + 6 ELSE 0

\* Last position of the match starting at p, 0 if there is none.
MatchEnd(s, p) ==
    LET q == SecondDot(s, p) IN
    IF q = 0 THEN 0 ELSE IF IsDigitAt(s, q + 2) THEN q + 2 ELSE q + 1

UnknownDate == <<"u", "n", "k", "n", "o", "w", "n">>

\* Variant: a label without a date is itself the name.
ExtractDate_LabelFallback(label) ==
    LET starts == {p \in 1..Len(label) : MatchEnd(label, p) # 0} IN
    IF starts = {}
    THEN label
    ELSE LET p == CHOOSE x \in starts : \A y \in starts : x <= y
         IN SubSeq(label, p, MatchEnd(label, p))

ExtractDate(label) ==
    LET starts == {p \in 1..Len(label) : MatchEnd(label, p) # 0} IN
    IF starts = {}
    THEN UnknownDate
    ELSE LET p == CHOOSE x \in starts : \A y \in starts : x <= y
         IN SubSeq(label, p, MatchEnd(label, p))

\* Lesson labels the page may show (openLatestLessonRecord's cardText).
Labels ==
    { <<"2", "0", "2", "4", ".", "3", ".", "1", "5", " ", "L">>,
      <<"L", "e", "s", "s", "o", "n">>,
      <<"R", "e", "v">> }

\* helpspeaking.ts:183-245: the steps at which the page interaction raises
\* an AutomationError itself, and the step given to any other exception.
AutomationSteps ==
    { "click-login-button", "fill-login-form", "click-my-class",
      "open-latest-record", "extract-video-source" }

OtherAutomationStep == "fetch-latest-lesson-video"

\* ------------------------------------------------------------ HTTP answers

\* What an awaited fetch can settle to.  status 0: fetch rejected (network
\* failure), no response.  readable: reading the body (response.text() of a
\* failure, response.json() of a success) resolves.  present: the success
\* response carries the field the caller needs (access_token, files, a body
\* stream, the location header, id).  committed: the store created the object
\* the PUT asked for (also possible when the answer is a failure or is lost).
Statuses == {200, 404, 429, 499, 500, 503}

Answer(status, readable, present, committed) ==
    [status |-> status, readable |-> readable, present |-> present,
     committed |-> committed]

Rejected == Answer(NoStatus, FALSE, FALSE, FALSE)

\* Answers whose success body is read with response.json().
JsonAnswers ==
    {Rejected}
       \cup {Answer(st, r, FALSE, FALSE) : st \in Statuses \ {200}, r \in BOOLEAN}
       \cup {Answer(200, FALSE, FALSE, FALSE), Answer(200, TRUE, FALSE, FALSE),
             Answer(200, TRUE, TRUE, FALSE)}

\* Answers whose success is used without reading a body (the download's
\* stream, the initiate's location header).
HeaderAnswers ==
    {Rejected}
       \cup {Answer(st, r, FALSE, FALSE) : st \in Statuses \ {200}, r \in BOOLEAN}
       \cup {Answer(200, TRUE, FALSE, FALSE), Answer(200, TRUE, TRUE, FALSE)}

\* Answers to the PUT of the media bytes: a success has created the object;
\* a server error or a lost answer may have created it too.
PutAnswers ==
    {Answer(a.status, a.readable, a.present, ResponseOk(a.status)) : a \in JsonAnswers}
       \cup {Answer(NoStatus, FALSE, FALSE, TRUE)}
       \cup {Answer(st, r, FALSE, TRUE) : st \in {500, 503}, r \in BOOLEAN}

\* The value of an Effect: success with a value, or failure with an error.
Ok(value) == [ok |-> TRUE, value |-> value, error |-> NoError]
Err(error) == [ok |-> FALSE, value |-> 0, error |-> error]

\* ------------------------------------------------------------- google-drive

\* google-drive.ts:22-25 DriveFileSummary, and null.
File(id, name) == [null |-> FALSE, id |-> id, name |-> name]
Null == [null |-> TRUE, id |-> 0, name |-> <<>>]

\* google-drive.ts:62-108: requestAccessToken for an answer of the token
\* endpoint; token is the access_token of a complete answer.
requestAccessToken(a, token) ==
    IF a.status = NoStatus
    THEN Err(Unclassified("DriveError", "request-access-token"))
    ELSE IF ~ResponseOk(a.status)
    THEN IF a.readable
         THEN Err(HttpFailure("DriveError", "request-access-token", a.status))
         ELSE Err(Unclassified("DriveError", "request-access-token"))
    ELSE IF ~a.readable
    THEN Err(Unclassified("DriveError", "request-access-token"))
    ELSE IF ~a.present
    THEN Err(Unclassified("DriveError", "request-access-token"))
    ELSE Ok(token)

\* google-drive.ts:132-164: findExistingFile for an answer of the listing
\* API; files is payload.files of a complete answer.
findExistingFile(a, files) ==
    IF a.status = NoStatus
    THEN Err(Unclassified("DriveError", "find-existing-file"))
    ELSE IF ~ResponseOk(a.status)
    THEN IF a.readable
         THEN Err(HttpFailure("DriveError", "find-existing-file", a.status))
         ELSE Err(Unclassified("DriveError", "find-existing-file"))
    ELSE IF ~a.readable
    THEN Err(Unclassified("DriveError", "find-existing-file"))
    ELSE IF a.present /\ files # <<>> THEN Ok(files[1]) ELSE Ok(Null)

\* Variant: a missing location header is flagged retryable.
initResumableUpload_MissingLocationRetryable(a, location) ==
    IF a.status = NoStatus
    THEN Err(Unclassified("DriveError", "upload-file-resumable"))
    ELSE IF ~ResponseOk(a.status)
    THEN IF a.readable
         THEN Err(HttpFailure("DriveError", "init-resumable-upload", a.status))
         ELSE Err(Unclassified("DriveError", "upload-file-resumable"))
    ELSE IF ~a.present
    THEN Err(ErrorOf("DriveError", "init-resumable-upload", NoStatus, "true"))
    ELSE Ok(location)

\* google-drive.ts:194-219 and 262-269: the initiate phase of
\* uploadFileResumable; location is the location header of a complete answer.
initResumableUpload(a, location) ==
    IF a.status = NoStatus
    THEN Err(Unclassified("DriveError", "upload-file-resumable"))
    ELSE IF ~ResponseOk(a.status)
    THEN IF a.readable
         THEN Err(HttpFailure("DriveError", "init-resumable-upload", a.status))
         ELSE Err(Unclassified("DriveError", "upload-file-resumable"))
    ELSE IF ~a.present
    THEN Err(Unclassified("DriveError", "init-resumable-upload"))
    ELSE Ok(location)

\* google-drive.ts:229-269: the transfer phase of uploadFileResumable; id is
\* payload.id of a complete answer.
putResumableUpload(a, id, fileName) ==
    IF a.status = NoStatus
    THEN Err(Unclassified("DriveError", "upload-file-resumable"))
    ELSE IF ~ResponseOk(a.status)
    THEN IF a.readable
         THEN Err(HttpFailure("DriveError", "put-resumable-upload", a.status))
         ELSE Err(Unclassified("DriveError", "upload-file-resumable"))
    ELSE IF ~a.readable
    THEN Err(Unclassified("DriveError", "upload-file-resumable"))
    ELSE IF ~a.present
    THEN Err(Unclassified("DriveError", "put-resumable-upload"))
    ELSE Ok(File(id, fileName))

\* index.ts:88-130: downloadVideo for an answer of the source site; stream
\* names the body stream the response opened.
downloadVideo(a, stream) ==
    IF a.status = NoStatus
    THEN Err(Unclassified("DownloadError", "download-video"))
    ELSE IF ~ResponseOk(a.status)
    THEN IF a.readable
         THEN Err(HttpFailure("DownloadError", "download-video", a.status))
         ELSE Err(Unclassified("DownloadError", "download-video"))
    ELSE IF ~a.present
    THEN Err(Unclassified("DownloadError", "download-video"))
    ELSE Ok(stream)

\* ------------------------------------------------------------------- state

VARIABLES
    wf,         \* wf[i]: the state of invocation i of runTransferWorkflow
    store,      \* the objects of the destination folder
    sessions,   \* the resumable-upload sessions the store has opened
    tokens,     \* the number of access tokens the token endpoint has issued
    scheduled,  \* the invocations whose trigger fires in this run
    eval        \* a function of the program evaluated on its own: its
                \* name, its input and, once it has run, its output

vars == <<wf, store, sessions, tokens, scheduled, eval>>

\* One entry of the trace of an invocation: a request issued, the answer it
\* got, or a backoff sleep started.
Event(type, call, attempt, token, target, body, status, readable, value, ms) ==
    [type |-> type, call |-> call, attempt |-> attempt, token |-> token,
     target |-> target, body |-> body, status |-> status,
     readable |-> readable, value |-> value, ms |-> ms]

\* A request goes out: with the bearer token, to the session location and
\* with the body stream given (0: none).
Requested(r, call, token, target, body) ==
    [r EXCEPT !.log =
        Append(@, Event("request", call, r.attempt, token, target, body,
                        NoStatus, FALSE, 0, 0))]

\* Its answer a arrives, carrying value (0: none).
Answered(r, call, a, value) ==
    [r EXCEPT !.log =
        Append(@, Event("response", call, r.attempt, 0, 0, 0, a.status,
                        a.readable, value, 0))]

Slept(r, ms) ==
    [r EXCEPT !.log =
        Append(@, Event("sleep", "sleep", r.attempt, 0, 0, 0, NoStatus, FALSE,
                        0, ms))]

NoVideo == [lessonLabel |-> <<>>, date |-> <<>>]
NoResult == [status |-> None, fileName |-> <<>>, lessonLabel |-> <<>>, driveFileId |-> 0]
NoPage == [ok |-> FALSE, label |-> <<>>, step |-> None]

\* An invocation that has not started.
Idle ==
    [pc |-> "idle",
     config |-> <<>>,             \* index.ts:216 config
     browser |-> "none",          \* helpspeaking.ts:175 browser
     page |-> NoPage,             \* how the try block of the locator ended
     video |-> NoVideo,           \* index.ts:228 latestLessonVideo
     accessToken |-> 0,           \* index.ts:252 accessToken
     duplicate |-> Null,          \* index.ts:261 duplicate
     uploading |-> {},            \* the invocations between their duplicate
                                  \* check and the end of their upload when
                                  \* this one's listing was answered
     attempt |-> 0,               \* index.ts:134 attempt
     body |-> 0,                  \* index.ts:160 downloadedVideo.body
     uploadUrl |-> 0,             \* google-drive.ts:213 uploadUrl
     thrown |-> <<>>,             \* the errors the attempts ended with, in order
     created |-> {},              \* the objects the store created from this
                                  \* invocation's transfers, by attempt
     result |-> NoResult,         \* the TransferWorkflowResult returned
     failure |-> NoError,         \* the error the workflow failed with
     log |-> <<>>]

Dates == {ExtractDate(l) : l \in Labels}

\* No function is evaluated on its own.
NoEval == [fn |-> None, input |-> <<>>, done |-> FALSE, output |-> <<>>]

\* The folder is empty or already holds an object under one of the names.
Init ==
    /\ wf = [i \in Invocations |-> Idle]
    /\ store \in {{}} \cup {{File(1, d)} : d \in Dates}
    /\ sessions = {}
    /\ tokens = 0
    /\ scheduled = {1}
    /\ eval = NoEval

\* ------------------------------------------------- the workflow's control

\* Variant: a failing step still hands a result record to the caller.
Fail_PartialResult(r, error) ==
    [r EXCEPT !.pc = "failed", !.failure = error,
              !.result = [status |-> "failed", fileName |-> r.video.date,
                          lessonLabel |-> r.video.lessonLabel,
                          driveFileId |-> 0]]

\* index.ts: the Effect of runTransferWorkflow fails.
Fail(r, error) == [r EXCEPT !.pc = "failed", !.failure = error]

\* Variant: every wrapped error is tagged with the step of the first wrapper.
WrapAsDriveError_LoadConfigStep(step) == Unclassified("DriveError", "load-config")

\* index.ts:217-224 and 236-243: Effect.mapError into a DriveError that
\* keeps the step.
WrapAsDriveError(step) == Unclassified("DriveError", step)

\* Variant: a retry keeps the stream a previous download opened and goes
\* straight to the initiate.
uploadWithRetry_KeepsDownload(r, attempt) ==
    IF r.body # 0
    THEN Requested([r EXCEPT !.pc = "init", !.attempt = attempt, !.uploadUrl = 0],
                   "init", r.accessToken, 0, 0)
    ELSE Requested([r EXCEPT !.pc = "download", !.attempt = attempt,
                             !.body = 0, !.uploadUrl = 0],
                   "download", 0, 0, 0)

\* index.ts:154-163: an attempt starts, and downloadVideo issues its GET.
uploadWithRetry(r, attempt) ==
    Requested([r EXCEPT !.pc = "download", !.attempt = attempt,
                        !.body = 0, !.uploadUrl = 0],
              "download", 0, 0, 0)

\* Variant: the attempt bound is compared with <=.
canRetry_OffByOne(error, attempt) ==
    /\ error.tag \in {"DownloadError", "DriveError"}
    /\ error.retryable = "true"
    /\ attempt <= MAX_UPLOAD_ATTEMPTS

\* Variant: an error whose retryable flag is not set is retried too.
canRetry_UnlessFalse(error, attempt) ==
    /\ error.tag \in {"DownloadError", "DriveError"}
    /\ error.retryable # "false"
    /\ attempt < MAX_UPLOAD_ATTEMPTS

\* index.ts:177-180
canRetry(error, attempt) ==
    /\ error.tag \in {"DownloadError", "DriveError"}
    /\ error.retryable = "true"
    /\ attempt < MAX_UPLOAD_ATTEMPTS

RECURSIVE Pow2(_)
Pow2(n) == IF n = 0 THEN 1 ELSE 2 * Pow2(n - 1)

\* Variant: the exponent is the attempt number itself.
waitMs_ExponentOffByOne(attempt) == BASE_BACKOFF_MS * Pow2(attempt)

\* index.ts:185
waitMs(attempt) == BASE_BACKOFF_MS * Pow2(attempt - 1)

\* Variant: when it gives up, the handler fails with the error of the first
\* attempt.
catchAll_FailsWithFirstError(r, error) ==
    IF ~canRetry(error, r.attempt)
    THEN Fail(r, r.thrown[1])
    ELSE Slept([r EXCEPT !.pc = "sleep"], waitMs(r.attempt))

\* index.ts:176-205: Effect.catchAll of an attempt that failed with error.
catchAll(r, error) ==
    IF ~canRetry(error, r.attempt)
    THEN Fail(r, error)
    ELSE Slept([r EXCEPT !.pc = "sleep"], waitMs(r.attempt))

\* An attempt ends with error: it is noted, and the handler runs.
AttemptFailed(r, error) ==
    catchAll([r EXCEPT !.thrown = Append(@, error)], error)

\* index.ts:272-277 and 289-294
Returned(r, status, driveFileId) ==
    [r EXCEPT !.pc = status,
              !.result = [status |-> status, fileName |-> r.video.date,
                          lessonLabel |-> r.video.lessonLabel,
                          driveFileId |-> driveFileId]]

\* Variant: the recursive call of uploadWithRetry does not pass the token on.
Bearer_DroppedOnRetry(r) == IF r.attempt >= 2 THEN 0 ELSE r.accessToken

\* google-drive.ts:134, 186, 222: Authorization: Bearer ${accessToken}
Bearer(r) == r.accessToken

\* Variant: the download is started together with the duplicate check.
gotAccessToken_StartsDownloadEarly(r, token) ==
    LET r1 == [r EXCEPT !.accessToken = token, !.pc = "list"]
    IN Requested(Requested(r1, "list", r1.accessToken, 0, 0), "download", 0, 0, 0)

\* index.ts:252-266: requestAccessToken succeeded with token;
\* findExistingFile issues the listing request.
gotAccessToken(r, token) ==
    LET r1 == [r EXCEPT !.accessToken = token, !.pc = "list"]
    IN Requested(r1, "list", Bearer(r1), 0, 0)

\* Variant: the duplicate is found but the upload runs all the same.
checkedDuplicate_AlwaysUploads(r, duplicate) ==
    uploadWithRetry([r EXCEPT !.duplicate = duplicate], 1)

\* Variant: the test of the duplicate is inverted.
checkedDuplicate_Inverted(r, duplicate) ==
    LET r1 == [r EXCEPT !.duplicate = duplicate] IN
    IF duplicate.null
    THEN Returned(r1, "skipped", duplicate.id)
    ELSE uploadWithRetry(r1, 1)

\* index.ts:267-287: findExistingFile succeeded with duplicate.
checkedDuplicate(r, duplicate) ==
    LET r1 == [r EXCEPT !.duplicate = duplicate] IN
    IF ~duplicate.null
    THEN Returned(r1, "skipped", duplicate.id)
    ELSE uploadWithRetry(r1, 1)

\* index.ts:164-172, google-drive.ts:181-201: downloadVideo succeeded with a
\* body stream; uploadFileResumable issues the initiate POST.
gotDownloadedVideo(r, stream) ==
    LET r1 == [r EXCEPT !.body = stream, !.pc = "init"]
    IN Requested(r1, "init", Bearer(r1), 0, 0)

\* Variant: a retry resumes the first session the run has opened.
gotUploadUrl_ResumesFirstSession(r, location) ==
    LET opened == {k \in 1..Len(r.log) :
                     /\ r.log[k].type = "response"
                     /\ r.log[k].call = "init"
                     /\ r.log[k].value # 0}
        first == CHOOSE k \in opened : \A j \in opened : k <= j
        r1 == [r EXCEPT !.uploadUrl = r.log[first].value, !.pc = "put"]
    IN Requested(r1, "put", Bearer(r1), r1.uploadUrl, r1.body)

\* google-drive.ts:213-233: the initiate answered with a location; the PUT
\* of the body stream goes to it.
gotUploadUrl(r, location) ==
    LET r1 == [r EXCEPT !.uploadUrl = location, !.pc = "put"]
    IN Requested(r1, "put", Bearer(r1), r1.uploadUrl, r1.body)

\* Variant: the result takes its id from the duplicate lookup.
gotUploadedFile_DuplicateId(r, uploadedFile) == Returned(r, "uploaded", r.duplicate.id)

\* index.ts:174 and 289-294: the attempt succeeded with uploadedFile.
gotUploadedFile(r, uploadedFile) == Returned(r, "uploaded", uploadedFile.id)

\* ----------------------------------------------------------------- actions

\* index.ts:216-235, helpspeaking.ts:175: loadConfig gave c: its error is
\* mapped and fails the workflow, else the locator launches the browser.
loadedConfig(r, c) ==
    IF ~c.ok
    THEN Fail(r, WrapAsDriveError("load-config"))
    ELSE [r EXCEPT !.pc = "launch", !.config = c.values]

\* index.ts:215-235: the workflow starts: loadConfig reads the bindings.
Start(i) ==
    /\ i \in scheduled
    /\ wf[i].pc = "idle"
    /\ \E c \in LoadConfigResults :
         wf' = [wf EXCEPT ![i] = loadedConfig(@, c)]
    /\ UNCHANGED <<store, sessions, tokens, scheduled, eval>>

\* helpspeaking.ts:175-179 and 269-276: puppeteer.launch settles.
BrowserLaunched(i) ==
    /\ wf[i].pc = "launch"
    /\ \E ok \in BOOLEAN :
         wf' = [wf EXCEPT ![i] =
                  IF ok
                  THEN [@ EXCEPT !.pc = "page", !.browser = "open"]
                  ELSE Fail(@, WrapAsDriveError(OtherAutomationStep))]
    /\ UNCHANGED <<store, sessions, tokens, scheduled, eval>>

\* helpspeaking.ts:178-264: the try block ends, with the lesson label or
\* with an exception; the finally block starts closing the browser.
PageOutcomes ==
    {[ok |-> TRUE, label |-> l, step |-> None] : l \in Labels}
       \cup {[ok |-> FALSE, label |-> <<>>, step |-> st] :
               st \in AutomationSteps \cup {OtherAutomationStep}}

\* Variant: no finally block: a failing page step leaves the locator with
\* the browser as it is.
PageDone_NoFinally(i) ==
    /\ wf[i].pc = "page"
    /\ \E o \in PageOutcomes :
         wf' = [wf EXCEPT ![i] =
                  IF o.ok
                  THEN [@ EXCEPT !.pc = "close", !.page = o]
                  ELSE Fail([@ EXCEPT !.page = o], WrapAsDriveError(o.step))]
    /\ UNCHANGED <<store, sessions, tokens, scheduled, eval>>

PageDone(i) ==
    /\ wf[i].pc = "page"
    /\ \E o \in PageOutcomes :
         wf' = [wf EXCEPT ![i] = [@ EXCEPT !.pc = "close", !.page = o]]
    /\ UNCHANGED <<store, sessions, tokens, scheduled, eval>>

\* helpspeaking.ts:264-276, index.ts:235-259: browser.close settles and the
\* locator returns; on success requestAccessToken issues the token request.
BrowserClosed(i) ==
    /\ wf[i].pc = "close"
    /\ \E ok \in BOOLEAN :
         LET r == wf[i]
             r1 == [r EXCEPT !.browser = IF ok THEN "closed" ELSE "close-failed"]
         IN wf' = [wf EXCEPT ![i] =
                     IF ~ok
                     THEN Fail(r1, WrapAsDriveError(OtherAutomationStep))
                     ELSE IF ~r.page.ok
                     THEN Fail(r1, WrapAsDriveError(r.page.step))
                     ELSE Requested(
                            [r1 EXCEPT !.pc = "token",
                                       !.video = [lessonLabel |-> r.page.label,
                                                  date |-> ExtractDate(r.page.label)]],
                            "token", 0, 0, 0)]
    /\ UNCHANGED <<store, sessions, tokens, scheduled, eval>>

\* google-drive.ts:70-108, index.ts:252-266: the token request settles.
TokenResponse(i) ==
    /\ wf[i].pc = "token"
    /\ \E a \in JsonAnswers :
         LET res == requestAccessToken(a, tokens + 1)
             r1 == Answered(wf[i], "token", a, res.value)
         IN /\ wf' = [wf EXCEPT ![i] =
                        IF res.ok THEN gotAccessToken(r1, res.value)
                        ELSE Fail(r1, res.error)]
            /\ tokens' = IF res.ok THEN tokens + 1 ELSE tokens
    /\ UNCHANGED <<store, sessions, scheduled, eval>>

\* What the listing API finds for the query: at most one (pageSize 1) of the
\* objects of that name.
Listing(name) ==
    LET matches == {f \in store : f.name = name} IN
    IF matches = {} THEN {<<>>} ELSE {<<f>> : f \in matches}

\* The other invocations that are past their duplicate check and whose
\* upload has not ended.
Uploading(i) ==
    {j \in Invocations \ {i} : wf[j].pc \in {"download", "init", "put", "sleep"}}

\* Variant: a listing that fails with a retryable error is issued again.
ListResponse_RetriesTransient(i) ==
    /\ wf[i].pc = "list"
    /\ \E a \in JsonAnswers : \E files \in Listing(wf[i].video.date) :
         LET res == findExistingFile(a, files)
             r1 == Answered([wf[i] EXCEPT !.uploading = Uploading(i)], "list", a,
                            IF res.ok THEN res.value.id ELSE 0)
         IN wf' = [wf EXCEPT ![i] =
                     IF res.ok THEN checkedDuplicate(r1, res.value)
                     ELSE IF res.error.retryable = "true"
                             /\ Len(r1.log) < 2 * MAX_UPLOAD_ATTEMPTS
                          THEN Requested(r1, "list", Bearer(r1), 0, 0)
                          ELSE Fail(r1, res.error)]
    /\ UNCHANGED <<store, sessions, tokens, scheduled, eval>>

\* google-drive.ts:132-164, index.ts:261-287: the listing request settles.
ListResponse(i) ==
    /\ wf[i].pc = "list"
    /\ \E a \in JsonAnswers : \E files \in Listing(wf[i].video.date) :
         LET res == findExistingFile(a, files)
             r1 == Answered([wf[i] EXCEPT !.uploading = Uploading(i)], "list", a,
                            IF res.ok THEN res.value.id ELSE 0)
         IN wf' = [wf EXCEPT ![i] =
                     IF res.ok THEN checkedDuplicate(r1, res.value)
                     ELSE Fail(r1, res.error)]
    /\ UNCHANGED <<store, sessions, tokens, scheduled, eval>>

\* index.ts:88-131 and 160-205: the download request settles.
DownloadResponse(i) ==
    /\ wf[i].pc = "download"
    /\ \E a \in HeaderAnswers :
         LET res == downloadVideo(a, wf[i].attempt)
             r1 == Answered(wf[i], "download", a, res.value)
         IN wf' = [wf EXCEPT ![i] =
                     IF res.ok THEN gotDownloadedVideo(r1, res.value)
                     ELSE AttemptFailed(r1, res.error)]
    /\ UNCHANGED <<store, sessions, tokens, scheduled, eval>>

\* google-drive.ts:194-233, index.ts:176-205: the initiate request settles.
\* A complete answer comes with a session the store has opened for the name.
InitResponse(i) ==
    /\ wf[i].pc = "init"
    /\ \E a \in HeaderAnswers :
         LET location == Cardinality(sessions) + 1
             res == initResumableUpload(a, location)
             r1 == Answered(wf[i], "init", a, res.value)
         IN /\ wf' = [wf EXCEPT ![i] =
                        IF res.ok THEN gotUploadUrl(r1, res.value)
                        ELSE AttemptFailed(r1, res.error)]
            /\ sessions' =
                 IF res.ok
                 THEN sessions \cup {[location |-> location, name |-> wf[i].video.date]}
                 ELSE sessions
    /\ UNCHANGED <<store, tokens, scheduled, eval>>

\* google-drive.ts:229-269, index.ts:174-205 and 289-294: the PUT settles.
\* When the store took the bytes, the session's object exists from now on.
PutResponse(i) ==
    /\ wf[i].pc = "put"
    /\ \E a \in PutAnswers : \E sn \in {x \in sessions : x.location = wf[i].uploadUrl} :
         LET id == Cardinality(store) + 1
             res == putResumableUpload(a, id, sn.name)
             r0 == [wf[i] EXCEPT !.created =
                      IF a.committed
                      THEN @ \cup {[attempt |-> wf[i].attempt, id |-> id]}
                      ELSE @]
             r1 == Answered(r0, "put", a,
                            IF res.ok THEN res.value.id ELSE 0)
         IN /\ wf' = [wf EXCEPT ![i] =
                        IF res.ok THEN gotUploadedFile(r1, res.value)
                        ELSE AttemptFailed(r1, res.error)]
            /\ store' = IF a.committed THEN store \cup {File(id, sn.name)} ELSE store
    /\ UNCHANGED <<sessions, tokens, scheduled, eval>>

\* Variant: after the backoff sleep the duplicate is looked up again.
SleepDone_ChecksAgain(i) ==
    /\ wf[i].pc = "sleep"
    /\ wf' = [wf EXCEPT ![i] =
                Requested([@ EXCEPT !.pc = "list"], "list", Bearer(@), 0, 0)]
    /\ UNCHANGED <<store, sessions, tokens, scheduled, eval>>

\* Variant: the retry does not count the attempt.
SleepDone_SameAttempt(i) ==
    /\ wf[i].pc = "sleep"
    /\ wf' = [wf EXCEPT ![i] = uploadWithRetry(@, @.attempt)]
    /\ UNCHANGED <<store, sessions, tokens, scheduled, eval>>

\* index.ts:193-204: the backoff sleep ends; the next attempt starts.
SleepDone(i) ==
    /\ wf[i].pc = "sleep"
    /\ wf' = [wf EXCEPT ![i] = uploadWithRetry(@, @.attempt + 1)]
    /\ UNCHANGED <<store, sessions, tokens, scheduled, eval>>

Next ==
    \E i \in Invocations :
        \/ Start(i)
        \/ BrowserLaunched(i)
        \/ PageDone(i)
        \/ BrowserClosed(i)
        \/ TokenResponse(i)
        \/ ListResponse(i)
        \/ DownloadResponse(i)
        \/ InitResponse(i)
        \/ PutResponse(i)
        \/ SleepDone(i)

Spec == Init /\ [][Next]_vars

\* ------------------------------------------------------ reading the trace

Log(i) == wf[i].log

\* Positions of the trace of invocation i holding an event of the type and call.
At(i, type, call) ==
    {k \in 1..Len(Log(i)) : Log(i)[k].type = type /\ Log(i)[k].call = call}

Requests(i, call) == At(i, "request", call)
Responses(i, call) == At(i, "response", call)
Sleeps(i) == At(i, "sleep", "sleep")

UploadCalls == {"download", "init", "put"}

\* The listing answered with a match.
DuplicateFound(i) == \E k \in Responses(i, "list") : Log(i)[k].value # 0

\* The listing answered without a match.
NoDuplicateFound(i) ==
    \E k \in Responses(i, "list") :
        ResponseOk(Log(i)[k].status) /\ Log(i)[k].value = 0

\* --------------------------------------------------------------- claims

\* C1: a run of uploadWithRetry started with attempt 1 starts at most 3
\* attempts, whatever the download, initiate and transfer answer: no event of
\* the trace belongs to an attempt numbered 4, and at most 3 downloads go out.
C1_AtMostThreeAttempts ==
    \A i \in Invocations :
        /\ wf[i].attempt <= 3
        /\ \A k \in 1..Len(Log(i)) : Log(i)[k].attempt <= 3
        /\ Cardinality(Requests(i, "download")) <= 3

\* Attempt 3 failed with a retryable error and the run ended there.
C1_Witness ==
    \E i \in Invocations :
        /\ wf[i].pc = "failed"
        /\ wf[i].attempt = 3
        /\ wf[i].failure.retryable = "true"

\* C2: the k-th backoff sleep follows the failure of attempt k, k < 3, and
\* lasts 1000 * 2^(k-1) ms: 1000 then 2000.  No sleep follows attempt 3, and
\* attempt n > 1 has exactly n-1 sleeps before it: while attempt n runs or
\* after it ended the trace holds n-1 sleeps (n while the run sleeps).
C2_BackoffSchedule ==
    \A i \in Invocations :
        /\ \A k \in Sleeps(i) :
              /\ Log(i)[k].attempt \in {1, 2}
              /\ Log(i)[k].ms = (IF Log(i)[k].attempt = 1 THEN 1000 ELSE 2000)
              /\ \A j \in Sleeps(i) : Log(i)[j].attempt = Log(i)[k].attempt => j = k
        /\ wf[i].attempt >= 1 =>
              Cardinality(Sleeps(i)) =
                 (IF wf[i].pc = "sleep" THEN wf[i].attempt ELSE wf[i].attempt - 1)
        /\ wf[i].attempt = 0 => Sleeps(i) = {}

\* Attempt 3 runs after two sleeps.
C2_Witness ==
    \E i \in Invocations :
        /\ wf[i].attempt = 3
        /\ wf[i].pc = "download"
        /\ Cardinality(Sleeps(i)) = 2

\* C3: an attempt that ends with an error whose retryable flag is not true
\* is the last one, whatever its number: the run has failed, and the answer
\* that failed the attempt is the last event of the trace (no sleep and no
\* request follow it).
C3_NonRetryableAborts ==
    \A i \in Invocations :
        \A n \in 1..Len(wf[i].thrown) :
            wf[i].thrown[n].retryable # "true" =>
                /\ n = Len(wf[i].thrown)
                /\ wf[i].attempt = n
                /\ wf[i].pc = "failed"
                /\ Log(i)[Len(Log(i))].type = "response"
                /\ Log(i)[Len(Log(i))].attempt = n
                /\ Cardinality(Sleeps(i)) = n - 1

\* Attempt 2 ended with HTTP 404 from the initiate.
C3_Witness ==
    \E i \in Invocations :
        /\ Len(wf[i].thrown) = 2
        /\ wf[i].thrown[2].status = 404
        /\ wf[i].thrown[2].step = "init-resumable-upload"
        /\ wf[i].pc = "failed"

\* C4: when findExistingFile returns a match, uploadWithRetry is not invoked:
\* no download, initiate or transfer request is in the trace, and the
\* workflow has ended "skipped" with driveFileId the id of the match.
C4_DuplicateSkips ==
    \A i \in Invocations :
        \A k \in Responses(i, "list") :
            Log(i)[k].value # 0 =>
                /\ wf[i].pc = "skipped"
                /\ wf[i].result.status = "skipped"
                /\ wf[i].result.driveFileId = Log(i)[k].value
                /\ wf[i].attempt = 0
                /\ \A c \in UploadCalls : Requests(i, c) = {}

\* The folder held the object with id 1 under the name and the run skipped.
C4_Witness ==
    \E i \in Invocations :
        /\ wf[i].pc = "skipped"
        /\ wf[i].result.driveFileId = 1
        /\ File(1, wf[i].video.date) \in store

\* C5: an invocation that ended and did not fail took exactly one of the
\* two paths: it skipped (a duplicate was found and no attempt started) or
\* it went through uploadWithRetry (no duplicate was found).
SkipTaken(i) == wf[i].result.status = "skipped"
UploadTaken(i) == wf[i].attempt >= 1 \/ \E c \in UploadCalls : Requests(i, c) # {}

C5_ExactlyOnePath ==
    \A i \in Invocations :
        /\ wf[i].pc \in {"skipped", "uploaded"} =>
              /\ SkipTaken(i) # UploadTaken(i)
              /\ SkipTaken(i) => DuplicateFound(i)
              /\ UploadTaken(i) => NoDuplicateFound(i) /\ ~DuplicateFound(i)
        /\ ~(SkipTaken(i) /\ UploadTaken(i))

\* One run ended on the upload path.
C5_Witness ==
    \E i \in Invocations :
        /\ wf[i].pc = "uploaded"
        /\ UploadTaken(i)
        /\ ~SkipTaken(i)

\* C6: the token-exchange request goes out at most once per invocation, and
\* every listing, initiate and transfer request, of attempts 2 and 3 too,
\* carries the token that exchange answered with.
C6_OneTokenReused ==
    \A i \in Invocations :
        /\ Cardinality(Requests(i, "token")) <= 1
        /\ \A c \in {"list", "init", "put"} : \A k \in Requests(i, c) :
              \E j \in Responses(i, "token") :
                  /\ j < k
                  /\ Log(i)[j].value # 0
                  /\ Log(i)[k].token = Log(i)[j].value

\* The transfer of attempt 3 went out with the token.
C6_Witness ==
    \E i \in Invocations : \E k \in Requests(i, "put") :
        /\ Log(i)[k].attempt = 3
        /\ Log(i)[k].token = wf[i].accessToken
        /\ wf[i].accessToken # 0

\* C7: with no duplicate found, an attempt issues at most one initiate, the
\* attempt that succeeded exactly one, and every transfer PUT goes to the
\* location the initiate of its own attempt answered with, which no initiate
\* of an earlier attempt answered with.
C7_FreshSessionPerAttempt ==
    \A i \in Invocations :
        /\ \A j, k \in Requests(i, "init") :
              Log(i)[j].attempt = Log(i)[k].attempt => j = k
        /\ wf[i].pc = "uploaded" =>
              Cardinality({k \in Requests(i, "init") :
                             Log(i)[k].attempt = wf[i].attempt}) = 1
        /\ \A k \in Requests(i, "put") :
              /\ \E j \in Responses(i, "init") :
                    /\ j < k
                    /\ Log(i)[j].attempt = Log(i)[k].attempt
                    /\ Log(i)[j].value # 0
                    /\ Log(i)[j].value = Log(i)[k].target
              /\ \A j \in Responses(i, "init") :
                    Log(i)[j].attempt < Log(i)[k].attempt =>
                        Log(i)[j].value # Log(i)[k].target

\* Attempt 1 opened a session and failed in the transfer; attempt 2 opened
\* another one and its PUT went out.
C7_Witness ==
    \E i \in Invocations :
        \E j \in Responses(i, "init") : \E k \in Requests(i, "put") :
            /\ Log(i)[j].attempt = 1
            /\ Log(i)[j].value # 0
            /\ Log(i)[k].attempt = 2

\* C8: when attempts 1..k (k = 1 or 2) failed with a retryable error and the
\* transfer of attempt k+1 answers with success and an id, the workflow has
\* ended "uploaded" after exactly k sleeps and driveFileId is that id.
C8_UploadedAfterRetries ==
    \A i \in Invocations : \A k \in Responses(i, "put") :
        ResponseOk(Log(i)[k].status) /\ Log(i)[k].value # 0 =>
            /\ wf[i].pc = "uploaded"
            /\ wf[i].result.status = "uploaded"
            /\ wf[i].result.driveFileId = Log(i)[k].value
            /\ Log(i)[k].attempt = wf[i].attempt
            /\ Len(wf[i].thrown) = wf[i].attempt - 1
            /\ \A n \in 1..Len(wf[i].thrown) : wf[i].thrown[n].retryable = "true"
            /\ Cardinality(Sleeps(i)) = wf[i].attempt - 1

\* The transfer answered 503 in attempts 1 and 2 and succeeded in attempt 3.
C8_Witness ==
    \E i \in Invocations :
        /\ wf[i].pc = "uploaded"
        /\ wf[i].attempt = 3
        /\ \A n \in {1, 2} :
              /\ wf[i].thrown[n].status = 503
              /\ wf[i].thrown[n].step = "put-resumable-upload"

\* C9: when uploadWithRetry fails, on a non-retryable error or because
\* attempt 3 failed, the workflow's error is the error (class, step, status,
\* retryable flag) the last attempt ended with, not one of an earlier attempt.
C9_FailsWithLastError ==
    \A i \in Invocations :
        wf[i].pc = "failed" /\ wf[i].attempt >= 1 =>
            /\ Len(wf[i].thrown) = wf[i].attempt
            /\ wf[i].failure = wf[i].thrown[wf[i].attempt]

\* Attempt 3 failed with a retryable error other than the error of attempt 1.
C9_Witness ==
    \E i \in Invocations :
        /\ wf[i].pc = "failed"
        /\ wf[i].attempt = 3
        /\ wf[i].failure.retryable = "true"
        /\ wf[i].failure # wf[i].thrown[1]
        /\ wf[i].failure = wf[i].thrown[3]

\* The last answer attempt n of invocation i got.
LastResponse(i, n) ==
    LET ks == {k \in 1..Len(Log(i)) :
                 Log(i)[k].type = "response" /\ Log(i)[k].attempt = n}
    IN Log(i)[CHOOSE k \in ks : \A j \in ks : j <= k]

\* C10 as stated: every HTTP failure response of the download, the initiate
\* or the transfer gives an error that is retryable exactly when the status
\* is 429 or >= 500.
FailureResponses(i) ==
    {k \in 1..Len(Log(i)) :
        /\ Log(i)[k].type = "response"
        /\ Log(i)[k].call \in UploadCalls
        /\ Log(i)[k].status # NoStatus
        /\ ~ResponseOk(Log(i)[k].status)}

C10_Original ==
    \A i \in Invocations : \A k \in FailureResponses(i) :
        (wf[i].thrown[Log(i)[k].attempt].retryable = "true")
            = (Log(i)[k].status = 429 \/ Log(i)[k].status >= 500)

\* C10, amended: every HTTP failure response of the download, the initiate or
\* the transfer whose body can be read gives an error that carries the
\* status and is retryable exactly when the status is 429 or >= 500.  An
\* exception without a status (network failure, the body of a failure
\* response or the JSON of a success not readable) and a missing field give
\* an error that is not retryable: it ends the run in the attempt it occurs
\* in, attempt 1 included.
C10_RetryableByStatus ==
    \A i \in Invocations :
        /\ \A k \in FailureResponses(i) :
              LET e == wf[i].thrown[Log(i)[k].attempt] IN
              IF Log(i)[k].readable
              THEN /\ e.status = Log(i)[k].status
                   /\ (e.retryable = "true")
                         = (e.status = 429 \/ e.status >= 500)
                   /\ (e.retryable = "false")
                         = ~(e.status = 429 \/ e.status >= 500)
              ELSE e.status = NoStatus
        /\ \A n \in 1..Len(wf[i].thrown) :
              wf[i].thrown[n].status = NoStatus =>
                  /\ wf[i].thrown[n].retryable # "true"
                  /\ n = Len(wf[i].thrown)
                  /\ wf[i].pc = "failed"
                  /\ wf[i].attempt = n

\* The download answered 429 in attempt 1 and was retried; the transfer of
\* attempt 2 answered 503 with a body that could not be read, which ended
\* the run.
C10_Witness ==
    \E i \in Invocations :
        /\ Len(wf[i].thrown) = 2
        /\ wf[i].thrown[1].status = 429
        /\ wf[i].thrown[1].tag = "DownloadError"
        /\ wf[i].thrown[1].retryable = "true"
        /\ LastResponse(i, 2).call = "put"
        /\ LastResponse(i, 2).status = 503
        /\ ~LastResponse(i, 2).readable
        /\ wf[i].thrown[2].status = NoStatus
        /\ wf[i].pc = "failed"


\* ------------------------------------------------------- the five steps

\* The step of runTransferWorkflow the invocation has come to, read from
\* what it has issued so far: load config, locate asset, request token,
\* check duplicate, upload with retry.
ReachedStep(i) ==
    IF \E c \in UploadCalls : Requests(i, c) # {} THEN "upload"
    ELSE IF Requests(i, "list") # {} THEN "duplicate"
    ELSE IF Requests(i, "token") # {} THEN "token"
    ELSE IF wf[i].config # <<>> THEN "locate"
    ELSE "config"

\* The step names the errors of each step carry.
StepNames(step) ==
    CASE step = "config" -> {"load-config"}
      [] step = "locate" -> AutomationSteps \cup {OtherAutomationStep}
      [] step = "token" -> {"request-access-token"}
      [] step = "duplicate" -> {"find-existing-file"}
      [] step = "upload" -> {"download-video", "init-resumable-upload",
                             "put-resumable-upload", "upload-file-resumable"}

\* C11: a step that ends in a classified error ends the workflow in the
\* failed state: the locator's, the token exchange's and the listing's
\* failing answers leave the invocation failed; a failed invocation has
\* issued nothing of the steps after the one its error names, the failing
\* answer being the last event of its trace; and no TransferWorkflowResult
\* exists unless the invocation ended skipped or uploaded.
C11_ErrorShortCircuits ==
    \A i \in Invocations :
        /\ wf[i].browser = "close-failed" => wf[i].pc = "failed"
        /\ wf[i].browser = "closed" /\ ~wf[i].page.ok => wf[i].pc = "failed"
        /\ \A k \in Responses(i, "token") :
              Log(i)[k].value = 0 => wf[i].pc = "failed"
        /\ \A k \in Responses(i, "list") :
              ~ResponseOk(Log(i)[k].status) \/ ~Log(i)[k].readable
                  => wf[i].pc = "failed"
        /\ \A n \in 1..Len(wf[i].thrown) :
              wf[i].thrown[n].retryable # "true" \/ n = 3 => wf[i].pc = "failed"
        /\ wf[i].pc = "failed" =>
              /\ wf[i].failure # NoError
              /\ wf[i].failure.step \in StepNames(ReachedStep(i))
              /\ Log(i) # <<>> => Log(i)[Len(Log(i))].type = "response"
              /\ ReachedStep(i) = "config" => wf[i].browser = "none"
              /\ wf[i].result = NoResult
        /\ wf[i].result # NoResult => wf[i].pc \in {"skipped", "uploaded"}

\* The listing answered 503: the workflow failed with no attempt started.
C11_Witness ==
    \E i \in Invocations :
        /\ wf[i].pc = "failed"
        /\ wf[i].failure.step = "find-existing-file"
        /\ wf[i].failure.status = 503
        /\ wf[i].attempt = 0

\* C12 as stated: every failure reaches the caller as one error kind.
C12_Original ==
    \A i \in Invocations :
        wf[i].pc = "failed" => wf[i].failure.tag = "DriveError"

\* C12, amended: every failure reaches the caller as a DriveError, or as a
\* DownloadError when the download failed (the two classes have the same
\* fields), carrying the name of the step it comes from: "load-config" for
\* the config loader, the locator's own step name, and the step names of
\* the token exchange, the listing, the download, the initiate and the
\* transfer.
C12_TwoKindsWithStep ==
    \A i \in Invocations :
        wf[i].pc = "failed" =>
            /\ wf[i].failure.tag \in {"DriveError", "DownloadError"}
            /\ (wf[i].failure.tag = "DownloadError")
                  = (wf[i].failure.step = "download-video")
            /\ wf[i].failure.step \in StepNames(ReachedStep(i))
            /\ wf[i].browser = "closed" /\ ~wf[i].page.ok =>
                  wf[i].failure.step = wf[i].page.step
            /\ wf[i].failure.tag = "DownloadError" =>
                  /\ LastResponse(i, wf[i].attempt).call = "download"
                  /\ wf[i].failure = wf[i].thrown[wf[i].attempt]

\* The download answered 404 and the workflow failed with a DownloadError.
C12_Witness ==
    \E i \in Invocations :
        /\ wf[i].pc = "failed"
        /\ wf[i].failure.tag = "DownloadError"
        /\ wf[i].failure.status = 404


\* ------------------------------------------------- overlapping invocations

\* Two triggers fire; the folder is as in Init.
InitOverlap ==
    /\ wf = [i \in Invocations |-> Idle]
    /\ store \in {{}} \cup {{File(1, d)} : d \in Dates}
    /\ sessions = {}
    /\ tokens = 0
    /\ scheduled = {1, 2}
    /\ eval = NoEval

\* No step of an invocation has failed.
NoFault == \A i \in Invocations : wf[i].pc # "failed" /\ wf[i].thrown = <<>>

\* The runs of two overlapping invocations in which every call succeeds.
NextOverlap == Next /\ NoFault'

SpecOverlap == InitOverlap /\ [][NextOverlap]_vars


\* C13: overlapping invocations for the same asset and folder are not
\* mutually excluded.  Whenever two invocations have both ended "uploaded"
\* under the same name, the folder holds two objects of that name, one per
\* invocation (the witness is the interleaving that gets there: the second
\* listing is answered, with no match, while the first invocation is between
\* its own duplicate check and the end of its upload).
C13_OverlapUploadsTwice ==
    \A i, j \in Invocations :
        /\ i # j
        /\ wf[i].pc = "uploaded"
        /\ wf[j].pc = "uploaded"
        /\ wf[i].result.fileName = wf[j].result.fileName
        => /\ wf[i].result.driveFileId # wf[j].result.driveFileId
           /\ File(wf[i].result.driveFileId, wf[i].result.fileName) \in store
           /\ File(wf[j].result.driveFileId, wf[j].result.fileName) \in store

\* Both listings found no match, the later one while the other invocation
\* was uploading, and both ended "uploaded": two objects of one name.
C13_Witness ==
    \E i, j \in Invocations :
        /\ i # j
        /\ j \in wf[i].uploading
        /\ NoDuplicateFound(i) /\ NoDuplicateFound(j)
        /\ wf[i].pc = "uploaded" /\ wf[j].pc = "uploaded"
        /\ wf[i].result.fileName = wf[j].result.fileName
        /\ wf[i].result.driveFileId # wf[j].result.driveFileId
        /\ Cardinality({f \in store : f.name = wf[i].result.fileName}) = 2


\* ------------------------------------------------------------------- C14

MaxValueLen == 2

\* The characters of a file name or folder id that matter to the query:
\* the quote, the backslash and any other character.
QueryChars == {"'", "\\", "a"}

QueryValues == UNION {[1..n -> QueryChars] : n \in 0..MaxValueLen}

\* String.prototype.replaceAll(search, by) for a one-character search.
RECURSIVE replaceAll(_, _, _)
replaceAll(s, search, by) ==
    IF s = <<>>
    THEN <<>>
    ELSE (IF Head(s) = search THEN by ELSE <<Head(s)>>)
           \o replaceAll(Tail(s), search, by)

\* Variant: the quotes are escaped before the backslashes.
escapeQueryValue_QuotesFirst(value) ==
    replaceAll(replaceAll(value, "'", <<"\\", "'">>), "\\", <<"\\", "\\">>)

\* google-drive.ts:42-43.
escapeQueryValue(value) ==
    replaceAll(replaceAll(value, "\\", <<"\\", "\\">>), "'", <<"\\", "'">>)

\* google-drive.ts:124: the text of the query around the two values.
QueryNameIs == <<"n", "a", "m", "e", " ", "=", " ", "'">>
QueryAnd == <<"'", " ", "a", "n", "d", " ", "'">>
QueryInParents ==
    <<"'", " ", "i", "n", " ", "p", "a", "r", "e", "n", "t", "s", " ", "a", "n", "d">>
      \o <<" ", "t", "r", "a", "s", "h", "e", "d", " ", "=", " ", "f", "a", "l", "s", "e">>

query(fileName, folderId) ==
    QueryNameIs \o escapeQueryValue(fileName) \o QueryAnd
      \o escapeQueryValue(folderId) \o QueryInParents

\* findExistingFile builds its query, evaluated on its own for every pair
\* of values.
InitQuery ==
    /\ wf = [i \in Invocations |-> Idle]
    /\ store = {}
    /\ sessions = {}
    /\ tokens = 0
    /\ scheduled = {}
    /\ \E fileName \in QueryValues, folderId \in QueryValues :
         eval = [fn |-> "findExistingFile", input |-> <<fileName, folderId>>,
                 done |-> FALSE, output |-> <<>>]

BuildQuery ==
    /\ eval.fn = "findExistingFile"
    /\ ~eval.done
    /\ eval' = [eval EXCEPT !.done = TRUE,
                            !.output = query(eval.input[1], eval.input[2])]
    /\ UNCHANGED <<wf, store, sessions, tokens, scheduled>>

SpecQuery == InitQuery /\ [][BuildQuery]_vars

\* The number of consecutive backslashes that end just before position k.
RECURSIVE BackslashesBefore(_, _)
BackslashesBefore(s, k) ==
    IF k > 1 /\ s[k - 1] = "\\" THEN 1 + BackslashesBefore(s, k - 1) ELSE 0

\* Reading a string literal of the query language from position p, just
\* after its opening quote: a backslash takes the next character as it is,
\* a quote that no backslash took closes the literal.  end is the position
\* of the closing quote, 0 when the text ends first.
RECURSIVE ReadLiteral(_, _, _)
ReadLiteral(q, p, acc) ==
    IF p > Len(q) THEN [end |-> 0, value |-> acc]
    ELSE IF q[p] = "'" THEN [end |-> p, value |-> acc]
    ELSE IF q[p] = "\\"
         THEN IF p = Len(q)
              THEN [end |-> 0, value |-> acc]
              ELSE ReadLiteral(q, p + 2, Append(acc, q[p + 1]))
         ELSE ReadLiteral(q, p + 1, Append(acc, q[p]))

\* Reading the whole query from position p: the text outside the literals,
\* with "?" where a literal stood, and the literals' values.
RECURSIVE ReadQuery(_, _, _, _)
ReadQuery(q, p, text, literals) ==
    IF p > Len(q) THEN [ok |-> TRUE, text |-> text, literals |-> literals]
    ELSE IF q[p] = "'"
         THEN LET l == ReadLiteral(q, p + 1, <<>>) IN
              IF l.end = 0
              THEN [ok |-> FALSE, text |-> text, literals |-> literals]
              ELSE ReadQuery(q, l.end + 1, Append(text, "?"),
                             Append(literals, l.value))
         ELSE ReadQuery(q, p + 1, Append(text, q[p]), literals)

QueryShape ==
    <<"n", "a", "m", "e", " ", "=", " ", "?", " ", "a", "n", "d", " ", "?", " ", "i", "n">>
      \o <<" ", "p", "a", "r", "e", "n", "t", "s", " ", "a", "n", "d", " ", "t", "r", "a", "s", "h", "e", "d", " ", "=", " ", "f", "a", "l", "s", "e">>

\* C14: in an escaped value every quote is preceded by an odd number of
\* backslashes and every run of backslashes not ending at a quote is even,
\* so the query reads as "name = <literal> and <literal> in parents and
\* trashed = false" and its two literals are the file name and the folder
\* id that went in.
C14_QueryRoundTrips ==
    (eval.fn = "findExistingFile" /\ eval.done) =>
        /\ \A v \in {eval.input[1], eval.input[2]} :
             LET e == escapeQueryValue(v) IN
             /\ \A k \in 1..Len(e) :
                  e[k] = "'" => BackslashesBefore(e, k) % 2 = 1
             /\ \A k \in 1..(Len(e) + 1) :
                  (k > Len(e) \/ e[k] \notin {"'", "\\"})
                      => BackslashesBefore(e, k) % 2 = 0
             /\ ReadLiteral(e \o <<"'">>, 1, <<>>) = [end |-> Len(e) + 1, value |-> v]
        /\ ReadQuery(eval.output, 1, <<>>, <<>>)
             = [ok |-> TRUE, text |-> QueryShape, literals |-> eval.input]

\* The file name is a backslash followed by a quote, the folder id holds a
\* quote, and the query has been built.
C14_Witness ==
    /\ eval.fn = "findExistingFile"
    /\ eval.done
    /\ eval.input[1] = <<"\\", "'">>
    /\ eval.input[2] = <<"a", "'">>
    /\ escapeQueryValue(eval.input[1]) = <<"\\", "\\", "\\", "'">>
    /\ Len(eval.output) = Len(QueryNameIs) + 4 + Len(QueryAnd) + 3 + Len(QueryInParents)

\* ------------------------------------------------------------------- C15

MaxHeaderLen == 4

\* The characters of a content-length header that matter to the parse.
HeaderChars == {"0", "1", "2", "-", "x", " "}

\* What response.headers.get("content-length") gives: null, or the header's
\* value, which carries no leading or trailing whitespace.
NoHeader == [present |-> FALSE, chars |-> <<>>]

HeaderValues ==
    {NoHeader}
      \cup {[present |-> TRUE, chars |-> s] :
              s \in {t \in UNION {[1..n -> HeaderChars] : n \in 0..MaxHeaderLen} :
                       Trim(t) = t}}

DigitValue(c) ==
    CASE c = "0" -> 0 [] c = "1" -> 1 [] c = "2" -> 2 [] c = "3" -> 3
      [] c = "4" -> 4 [] c = "5" -> 5 [] c = "6" -> 6 [] c = "7" -> 7
      [] c = "8" -> 8 [] c = "9" -> 9

\* The longest prefix of s made of digits, and its value in base ten.
RECURSIVE DigitPrefix(_)
DigitPrefix(s) ==
    IF s # <<>> /\ Head(s) \in Digits
    THEN <<Head(s)>> \o DigitPrefix(Tail(s))
    ELSE <<>>

RECURSIVE DecimalValue(_)
DecimalValue(s) ==
    IF s = <<>>
    THEN 0
    ELSE 10 * DecimalValue(SubSeq(s, 1, Len(s) - 1)) + DigitValue(s[Len(s)])

\* Number.parseInt(s, 10): leading whitespace is skipped, a sign is taken,
\* then the digits up to the first character that is not a digit; NaN when
\* there is no digit there.
NaN == [finite |-> FALSE, value |-> 0]

parseInt(s) ==
    LET t == TrimStart(s)
        signed == t # <<>> /\ Head(t) \in {"+", "-"}
        sign == IF t # <<>> /\ Head(t) = "-" THEN -1 ELSE 1
        digits == DigitPrefix(IF signed THEN Tail(t) ELSE t)
    IN IF digits = <<>>
       THEN NaN
       ELSE [finite |-> TRUE, value |-> sign * DecimalValue(digits)]

\* index.ts:49-60.
Absent == [defined |-> FALSE, value |-> 0]

parseContentLength(value) ==
    IF ~value.present \/ value.chars = <<>>
    THEN Absent
    ELSE LET parsed == parseInt(value.chars) IN
         IF ~parsed.finite \/ parsed.value <= 0
         THEN Absent
         ELSE [defined |-> TRUE, value |-> parsed.value]

\* parseContentLength evaluated on its own for every header value.
InitContentLength ==
    /\ wf = [i \in Invocations |-> Idle]
    /\ store = {}
    /\ sessions = {}
    /\ tokens = 0
    /\ scheduled = {}
    /\ \E value \in HeaderValues :
         eval = [fn |-> "parseContentLength", input |-> value,
                 done |-> FALSE, output |-> <<>>]

ParseContentLength ==
    /\ eval.fn = "parseContentLength"
    /\ ~eval.done
    /\ eval' = [eval EXCEPT !.done = TRUE,
                            !.output = parseContentLength(eval.input)]
    /\ UNCHANGED <<wf, store, sessions, tokens, scheduled>>

SpecContentLength == InitContentLength /\ [][ParseContentLength]_vars

\* The header is a decimal number: digits only, at least one.
IsDecimal(value) ==
    /\ value.present
    /\ value.chars # <<>>
    /\ \A k \in 1..Len(value.chars) : value.chars[k] \in Digits

\* C15: parseContentLength gives the header's number when the header is a
\* positive decimal number, and absent for every other header: missing,
\* holding a character that is not a digit (digits followed by other
\* characters included), zero or negative; it never gives 0.
C15_Original ==
    (eval.fn = "parseContentLength" /\ eval.done) =>
        /\ eval.output.defined => eval.output.value > 0
        /\ eval.output =
             IF IsDecimal(eval.input) /\ DecimalValue(eval.input.chars) > 0
             THEN [defined |-> TRUE, value |-> DecimalValue(eval.input.chars)]
             ELSE Absent

\* ------------------------------------------------------------------- C16

\* The workflow is started on each environment: loadConfig's result is kept
\* next to what the workflow did with it.
InitConfig ==
    /\ wf = [i \in Invocations |-> Idle]
    /\ store = {}
    /\ sessions = {}
    /\ tokens = 0
    /\ scheduled = {1}
    /\ \E env \in Envs :
         eval = [fn |-> "loadConfig", input |-> env,
                 done |-> FALSE, output |-> <<>>]

StartWithEnv(i) ==
    /\ i \in scheduled
    /\ wf[i].pc = "idle"
    /\ eval.fn = "loadConfig"
    /\ ~eval.done
    /\ LET c == loadConfig(eval.input) IN
         /\ wf' = [wf EXCEPT ![i] = loadedConfig(@, c)]
         /\ eval' = [eval EXCEPT !.done = TRUE, !.output = c]
    /\ UNCHANGED <<store, sessions, tokens, scheduled>>

NextConfig == \E i \in Invocations : StartWithEnv(i)

SpecConfig == InitConfig /\ [][NextConfig]_vars

\* The setting is a string with a character that is not whitespace.
IsNonEmptyString(value) ==
    /\ value.isString
    /\ \E k \in 1..Len(value.chars) : value.chars[k] \notin Whitespace

\* C16: loadConfig succeeds exactly when all six settings are non-empty
\* strings, a whitespace-only value counting as missing; otherwise its error
\* names the first missing key in reading order, and the workflow has then
\* failed at load-config with no browser launched, no request issued and
\* no step left to take.
C16_ConfigAllOrFirstMissing ==
    (eval.fn = "loadConfig" /\ eval.done) =>
        LET env == eval.input
            out == eval.output
            missing == {k \in 1..Len(ConfigKeys) : ~IsNonEmptyString(env[k])}
        IN /\ out.ok <=> missing = {}
           /\ out.ok => wf[1].pc = "launch" /\ wf[1].failure = NoError
           /\ ~out.ok =>
                /\ \E k \in missing :
                     /\ \A j \in missing : k <= j
                     /\ out.key = ConfigKeys[k]
                /\ wf[1].pc = "failed"
                /\ wf[1].failure.step = "load-config"
                /\ wf[1].log = <<>>
                /\ wf[1].browser = "none"
                /\ wf[1].result = NoResult
                /\ ~ENABLED Next

\* The first two settings are given, the third is whitespace only and the
\* fifth is not a string: the error names the third key.
C16_Witness ==
    /\ eval.fn = "loadConfig"
    /\ eval.done
    /\ eval.input[1] = Binding(TRUE, <<"a">>)
    /\ eval.input[2] = Binding(TRUE, <<" ", "a">>)
    /\ eval.input[3] = Binding(TRUE, <<" ">>)
    /\ eval.input[5] = Binding(FALSE, <<>>)
    /\ eval.output.key = "GOOGLE_OAUTH_CLIENT_ID"
    /\ wf[1].pc = "failed"

\* ------------------------------------------------------------------- C17

\* C17: every attempt started, the second and the third included, begins
\* with a download request of its own, so there are as many download
\* requests as attempts started; the body of a transfer is the stream that
\* the download of the same attempt opened, and of no other attempt; and an
\* attempt whose download failed issues no initiate.
C17_FreshDownloadPerAttempt ==
    \A i \in Invocations :
        /\ Cardinality(Requests(i, "download")) = wf[i].attempt
        /\ \A n \in 1..wf[i].attempt :
             \E k \in Requests(i, "download") :
                 /\ Log(i)[k].attempt = n
                 /\ \A j \in 1..Len(Log(i)) :
                      Log(i)[j].attempt = n /\ j # k => j > k
        /\ \A k \in Requests(i, "put") :
             /\ Log(i)[k].body # 0
             /\ \E d \in Responses(i, "download") :
                  /\ d < k
                  /\ Log(i)[d].attempt = Log(i)[k].attempt
                  /\ Log(i)[d].value = Log(i)[k].body
                  /\ \A e \in Responses(i, "download") \ {d} :
                       Log(i)[e].value # Log(i)[k].body
        /\ \A d \in Responses(i, "download") :
             Log(i)[d].value = 0 =>
                 \A k \in Requests(i, "init") \cup Requests(i, "put") :
                     Log(i)[k].attempt # Log(i)[d].attempt

\* The first attempt's transfer failed, the second attempt's download
\* failed, and the third attempt transfers the stream of its own download.
C17_Witness ==
    \E i \in Invocations :
        /\ \E k \in Requests(i, "put") : Log(i)[k].attempt = 1 /\ Log(i)[k].body = 1
        /\ \E d \in Responses(i, "download") :
             Log(i)[d].attempt = 2 /\ Log(i)[d].value = 0
        /\ \E k \in Requests(i, "put") : Log(i)[k].attempt = 3 /\ Log(i)[k].body = 3
        /\ Cardinality(Requests(i, "download")) = 3

\* ------------------------------------------------------------------- C18

\* The answers with a success status that lack the field the caller needs:
\* an initiate without location header, a transfer or a token answer whose
\* body reads but holds no id, no access_token.
IncompleteSuccesses(i, call) ==
    {k \in Responses(i, call) :
        /\ ResponseOk(Log(i)[k].status)
        /\ Log(i)[k].readable
        /\ Log(i)[k].value = 0}

\* C18: an initiate answer without location or a transfer answer without id
\* ends its attempt with an error that has no status and whose retryable
\* flag is not true: the workflow fails with it at once, no sleep and no
\* further request following; and a token answer without access_token
\* fails the workflow before any listing request.
C18_MissingFieldIsFatal ==
    \A i \in Invocations :
        /\ \A call \in {"init", "put"} : \A k \in IncompleteSuccesses(i, call) :
             LET n == Log(i)[k].attempt IN
             /\ Len(wf[i].thrown) = n
             /\ wf[i].thrown[n].retryable # "true"
             /\ wf[i].thrown[n].status = NoStatus
             /\ wf[i].thrown[n].step =
                  (IF call = "init" THEN "init-resumable-upload"
                   ELSE "put-resumable-upload")
             /\ wf[i].pc = "failed"
             /\ wf[i].failure = wf[i].thrown[n]
             /\ k = Len(Log(i))
             /\ \A s \in Sleeps(i) : Log(i)[s].attempt < n
        /\ \A k \in IncompleteSuccesses(i, "token") :
             /\ wf[i].pc = "failed"
             /\ wf[i].failure.step = "request-access-token"
             /\ wf[i].failure.retryable # "true"
             /\ Requests(i, "list") = {}
             /\ k = Len(Log(i))

\* The first attempt was retried; the second attempt's initiate answered 200
\* without a location header, and the workflow failed after one sleep.
C18_Witness ==
    \E i \in Invocations :
        /\ \E k \in IncompleteSuccesses(i, "init") : Log(i)[k].attempt = 2
        /\ wf[i].pc = "failed"
        /\ Cardinality(Sleeps(i)) = 1

\* ------------------------------------------------------------------- C19

\* The answers to the token exchange or to the listing that give an error
\* flagged retryable: a failure status of 429 or of 500 and more, with a
\* body that reads.
TransientFailures(i, call) ==
    {k \in Responses(i, call) :
        /\ Log(i)[k].status # NoStatus
        /\ ~ResponseOk(Log(i)[k].status)
        /\ Log(i)[k].readable
        /\ isRetryableHttpStatus(Log(i)[k].status)}

StepOf(call) ==
    IF call = "token" THEN "request-access-token" ELSE "find-existing-file"

\* C19: the token exchange and the listing are each requested at most once;
\* when one fails, also with 429 or a server error, the workflow has failed
\* with exactly the error the call built (DriveError, the call's step, the
\* status, retryable true), no sleep was taken and no attempt was started.
C19_NoRetryOutsideUpload ==
    \A i \in Invocations : \A call \in {"token", "list"} :
        /\ Cardinality(Requests(i, call)) <= 1
        /\ \A k \in Responses(i, call) :
             Log(i)[k].status = NoStatus \/ ~ResponseOk(Log(i)[k].status)
                 => /\ wf[i].pc = "failed"
                    /\ wf[i].failure.step = StepOf(call)
                    /\ k = Len(Log(i))
        /\ \A k \in TransientFailures(i, call) :
             /\ wf[i].failure = ErrorOf("DriveError", StepOf(call), Log(i)[k].status, "true")
             /\ Sleeps(i) = {}
             /\ wf[i].attempt = 0
             /\ Cardinality(Requests(i, call)) = 1

\* The listing answered 429 and the workflow failed with that error.
C19_Witness ==
    \E i \in Invocations :
        /\ \E k \in TransientFailures(i, "list") : Log(i)[k].status = 429
        /\ wf[i].pc = "failed"
        /\ wf[i].failure.retryable = "true"
        /\ wf[i].failure.status = 429

\* ------------------------------------------------------------------- C20

\* The call whose success a request of the given call waits for.
CallBefore(call) ==
    CASE call = "list" -> "token"
      [] call = "download" -> "list"
      [] call = "init" -> "download"
      [] call = "put" -> "init"

\* The answer at position k of the trace is a success of its call: a token,
\* a listing without match, a stream, a session location.
Succeeded(i, k) ==
    /\ Log(i)[k].type = "response"
    /\ ResponseOk(Log(i)[k].status)
    /\ Log(i)[k].call = "list" => Log(i)[k].readable /\ Log(i)[k].value = 0
    /\ Log(i)[k].call # "list" => Log(i)[k].value # 0

\* C20: within an invocation the calls go out one at a time and in order.
\* Nothing is requested before the config is loaded and the locator has
\* ended well with its browser closed.  In the trace each request is
\* followed by its own answer before anything else; a request other than
\* the token's comes right after the success of the call before it in the
\* order token, listing, download, initiate, transfer, except that the
\* download of a later attempt comes right after the backoff sleep, which
\* itself comes right after a failed answer of the attempt before.  The
\* invocation waits on exactly the one request, or the one sleep, that ends
\* its trace.
C20_OneCallAtATime ==
    \A i \in Invocations :
        /\ wf[i].pc \in {"idle", "launch", "page", "close"} => Log(i) = <<>>
        /\ wf[i].browser = "open" <=> wf[i].pc \in {"page", "close"}
        /\ Log(i) # <<>> =>
              wf[i].config # <<>> /\ wf[i].browser = "closed" /\ wf[i].page.ok
        /\ \A k \in 1..Len(Log(i)) :
             LET e == Log(i)[k] IN
             /\ k = 1 => e.type = "request" /\ e.call = "token"
             /\ e.type = "request" /\ k < Len(Log(i)) =>
                   /\ Log(i)[k + 1].type = "response"
                   /\ Log(i)[k + 1].call = e.call
                   /\ Log(i)[k + 1].attempt = e.attempt
             /\ e.type = "response" => Log(i)[k - 1].type = "request"
             /\ e.type = "sleep" =>
                   /\ Log(i)[k - 1].type = "response"
                   /\ ~Succeeded(i, k - 1)
                   /\ Log(i)[k - 1].attempt = e.attempt
                   /\ k < Len(Log(i)) =>
                        /\ Log(i)[k + 1].type = "request"
                        /\ Log(i)[k + 1].call = "download"
                        /\ Log(i)[k + 1].attempt = e.attempt + 1
             /\ e.type = "request" /\ k > 1 =>
                   \/ /\ Succeeded(i, k - 1)
                      /\ Log(i)[k - 1].call = CallBefore(e.call)
                      /\ e.call \in {"init", "put"} => Log(i)[k - 1].attempt = e.attempt
                      /\ e.call = "download" => e.attempt = 1
                   \/ /\ Log(i)[k - 1].type = "sleep"
                      /\ e.call = "download"
                      /\ e.attempt > 1
        /\ wf[i].pc \in {"token", "list", "download", "init", "put"} <=>
              Log(i) # <<>> /\ Log(i)[Len(Log(i))].type = "request"
        /\ wf[i].pc \in {"token", "list", "download", "init", "put"} =>
              Log(i)[Len(Log(i))].call = wf[i].pc
        /\ wf[i].pc = "sleep" <=>
              Log(i) # <<>> /\ Log(i)[Len(Log(i))].type = "sleep"

\* Two attempts ran: the trace holds the token exchange, the listing, a
\* first attempt up to its failed transfer, a sleep, and a second attempt
\* that ended uploaded: twelve requests and answers and one sleep.
C20_Witness ==
    \E i \in Invocations :
        /\ wf[i].pc = "uploaded"
        /\ wf[i].attempt = 2
        /\ Len(Log(i)) = 17
        /\ Cardinality(Sleeps(i)) = 1
        /\ Cardinality(Requests(i, "put")) = 2

\* ------------------------------------------------- one invocation, then another

\* The trigger fires once; it fires again when the first invocation is over.
InitRepeat ==
    /\ wf = [i \in Invocations |-> Idle]
    /\ store \in {{}} \cup {{File(1, d)} : d \in Dates}
    /\ sessions = {}
    /\ tokens = 0
    /\ scheduled = {1}
    /\ eval = NoEval

Retrigger ==
    /\ wf[1].pc \in {"uploaded", "skipped", "failed"}
    /\ 2 \notin scheduled
    /\ scheduled' = scheduled \cup {2}
    /\ UNCHANGED <<wf, store, sessions, tokens, eval>>

\* No attempt of an upload has failed.
NoUploadFault == \A i \in Invocations : wf[i].thrown = <<>>

\* The listing API answers a complete listing: an invocation that was told
\* there is no object of its name sees none in the folder but its own.
FaithfulListing ==
    \A i \in Invocations :
        NoDuplicateFound(i) =>
            \A f \in store :
                f.name = wf[i].video.date =>
                    wf[i].pc = "uploaded" /\ f.id = wf[i].result.driveFileId

\* The runs of an invocation and of a later one, in which the config, the
\* locator, the token exchange and the listing may fail, the listing is
\* complete when it answers and the upload succeeds at its first attempt.
NextRepeat == (Next /\ NoUploadFault' /\ FaithfulListing') \/ Retrigger

SpecRepeat == InitRepeat /\ [][NextRepeat]_vars

\* The label holds a match of the date pattern.
HasDate(label) == \E p \in 1..Len(label) : MatchEnd(label, p) # 0

\* C21: the name of an asset whose label holds no date is "unknown".  So
\* when invocation 1 has uploaded under "unknown" and the later invocation 2
\* is for another asset whose label has no date either, invocation 2 issues
\* no download, initiate or transfer and never ends uploaded; once its
\* listing has answered it has ended skipped on the object of invocation 1,
\* which stays the only object of that name.
C21_SentinelCollides ==
    /\ \A i \in Invocations :
         wf[i].video # NoVideo =>
             /\ wf[i].video.lessonLabel = wf[i].page.label
             /\ ~HasDate(wf[i].video.lessonLabel) => wf[i].video.date = UnknownDate
    /\ ( /\ wf[1].pc = "uploaded"
         /\ wf[1].result.fileName = UnknownDate
         /\ wf[2].video # NoVideo
         /\ ~HasDate(wf[2].video.lessonLabel)
         /\ wf[2].video.lessonLabel # wf[1].video.lessonLabel )
       => /\ \A c \in UploadCalls : Requests(2, c) = {}
          /\ wf[2].pc # "uploaded"
          /\ \A k \in Responses(2, "list") :
               ResponseOk(Log(2)[k].status) /\ Log(2)[k].readable =>
                   /\ wf[2].pc = "skipped"
                   /\ wf[2].result.fileName = UnknownDate
                   /\ wf[2].result.driveFileId = wf[1].result.driveFileId
          /\ {f \in store : f.name = UnknownDate}
               = {File(wf[1].result.driveFileId, UnknownDate)}

\* "Lesson" was uploaded under "unknown"; the later invocation for "Rev"
\* ended skipped on that object.
C21_Witness ==
    /\ wf[1].pc = "uploaded"
    /\ wf[1].video.lessonLabel = <<"L", "e", "s", "s", "o", "n">>
    /\ wf[1].result.fileName = UnknownDate
    /\ wf[2].pc = "skipped"
    /\ wf[2].video.lessonLabel = <<"R", "e", "v">>
    /\ wf[2].result.driveFileId = wf[1].result.driveFileId
    /\ Requests(2, "download") = {}

\* ------------------------------------------------------------------- C22

\* The transfers of invocation i that were answered with a retryable failure
\* although the store had created the object.
CommittedButFailed(i) ==
    {k \in Responses(i, "put") :
        /\ Log(i)[k].status # NoStatus
        /\ ~ResponseOk(Log(i)[k].status)
        /\ Log(i)[k].readable
        /\ isRetryableHttpStatus(Log(i)[k].status)
        /\ \E c \in wf[i].created : c.attempt = Log(i)[k].attempt}

\* C22: the listing is requested at most once per invocation, before any
\* attempt (exactly once when an attempt has started), and never between
\* attempts.  So after a transfer that failed with a retryable answer but
\* had created the object, what follows in attempts 1 and 2 is the sleep
\* and the download of the next attempt, with no listing; and when a later
\* attempt ends uploaded, the folder holds two different objects of the
\* file's name, the earlier attempt's and the result's.
C22_NoRecheckBetweenAttempts ==
    \A i \in Invocations :
        /\ Cardinality(Requests(i, "list")) <= 1
        /\ wf[i].attempt >= 1 => Cardinality(Requests(i, "list")) = 1
        /\ \A k \in Requests(i, "list") :
             /\ Log(i)[k].attempt = 0
             /\ \A c \in UploadCalls : \A d \in Requests(i, c) : k < d
        /\ \A k \in CommittedButFailed(i) :
             LET n == Log(i)[k].attempt
                 c == CHOOSE x \in wf[i].created : x.attempt = n
             IN /\ File(c.id, wf[i].video.date) \in store
                /\ n < MAX_UPLOAD_ATTEMPTS =>
                     /\ Log(i)[k + 1].type = "sleep"
                     /\ k + 1 < Len(Log(i)) =>
                          /\ Log(i)[k + 2].type = "request"
                          /\ Log(i)[k + 2].call = "download"
                          /\ Log(i)[k + 2].attempt = n + 1
                /\ wf[i].pc = "uploaded" =>
                     /\ wf[i].result.driveFileId # c.id
                     /\ File(wf[i].result.driveFileId, wf[i].video.date) \in store
                     /\ Cardinality({f \in store : f.name = wf[i].video.date}) >= 2

\* The first transfer was answered 503 after the store had created the
\* object; the second attempt uploaded: two objects of the name.
C22_Witness ==
    \E i \in Invocations :
        /\ wf[i].pc = "uploaded"
        /\ wf[i].attempt = 2
        /\ \E k \in CommittedButFailed(i) :
             Log(i)[k].attempt = 1 /\ Log(i)[k].status = 503
        /\ Cardinality({f \in store : f.name = wf[i].video.date}) = 2
        /\ Cardinality(Requests(i, "list")) = 1

\* ------------------------------------------------------------------- C23

\* Every external call and every backoff sleep of an invocation returns:
\* the step that its return enables is eventually taken.
Returns ==
    \A i \in Invocations :
        /\ WF_vars(Start(i))
        /\ WF_vars(BrowserLaunched(i))
        /\ WF_vars(PageDone(i))
        /\ WF_vars(BrowserClosed(i))
        /\ WF_vars(TokenResponse(i))
        /\ WF_vars(ListResponse(i))
        /\ WF_vars(DownloadResponse(i))
        /\ WF_vars(InitResponse(i))
        /\ WF_vars(PutResponse(i))
        /\ WF_vars(SleepDone(i))

SpecReturns == Spec /\ Returns

Terminal == {"uploaded", "skipped", "failed"}

\* C23: when every call and every sleep returns, an invocation that is
\* triggered eventually is uploaded, skipped or failed; it has then started
\* at most 3 attempts and slept at most 2 times, and from then on nothing
\* of it changes.
C23_Terminates ==
    /\ \A i \in Invocations : (i \in scheduled) ~> (wf[i].pc \in Terminal)
    /\ [](\A i \in Invocations :
            /\ wf[i].attempt <= MAX_UPLOAD_ATTEMPTS
            /\ Cardinality(Sleeps(i)) <= MAX_UPLOAD_ATTEMPTS - 1
            /\ wf[i].pc \in Terminal /\ wf[i].attempt > 0
                  => Cardinality(Sleeps(i)) = wf[i].attempt - 1)
    /\ [][\A i \in Invocations : wf[i].pc \in Terminal => wf'[i] = wf[i]]_vars

\* The third attempt, after two sleeps, ended uploaded.
C23_Witness ==
    \E i \in Invocations :
        /\ wf[i].pc = "uploaded"
        /\ wf[i].attempt = 3
        /\ Cardinality(Sleeps(i)) = 2
        /\ ~ENABLED Next

\* ------------------------------------------------------------------- C24

\* The locator of invocation i launched a browser and has returned.
LocatorReturned(i) ==
    wf[i].browser # "none" /\ wf[i].pc \notin {"page", "close"}

\* C24 as stated: whenever the locator has returned after launching the
\* browser, the browser is closed.
C24_Original ==
    \A i \in Invocations : LocatorReturned(i) => wf[i].browser = "closed"

\* C24, amended: once the browser is launched, browser.close() is called and
\* awaited on every path before the locator returns, after an asset was
\* found and after a page step failed alike, so the browser is open only
\* while the locator runs.  The locator gives an asset, and the token exchange
\* or any later request is issued, only with the browser closed; a page
\* step's failure reaches the workflow under its own step name when the
\* close succeeded.  When browser.close() itself fails, the browser is not
\* known to be closed: the locator then fails with the step
\* "fetch-latest-lesson-video", whatever the page steps did, and nothing
\* is requested.
C24_CloseAwaitedOnEveryPath ==
    \A i \in Invocations :
        /\ wf[i].browser = "open" <=> wf[i].pc \in {"page", "close"}
        /\ LocatorReturned(i) =>
              /\ wf[i].browser \in {"closed", "close-failed"}
              /\ wf[i].page # NoPage
        /\ wf[i].video # NoVideo => wf[i].browser = "closed" /\ wf[i].page.ok
        /\ Log(i) # <<>> => wf[i].browser = "closed"
        /\ LocatorReturned(i) /\ ~wf[i].page.ok /\ wf[i].browser = "closed" =>
              /\ wf[i].pc = "failed"
              /\ wf[i].failure.step = wf[i].page.step
              /\ Log(i) = <<>>
        /\ wf[i].browser = "close-failed" =>
              /\ wf[i].pc = "failed"
              /\ wf[i].failure.step = OtherAutomationStep
              /\ wf[i].video = NoVideo
              /\ Log(i) = <<>>

\* The page step "click-my-class" failed, the browser was closed, and the
\* workflow failed under that step.
C24_Witness ==
    \E i \in Invocations :
        /\ LocatorReturned(i)
        /\ ~wf[i].page.ok
        /\ wf[i].page.step = "click-my-class"
        /\ wf[i].browser = "closed"
        /\ wf[i].pc = "failed"
        /\ wf[i].failure.step = "click-my-class"
====
